---- MODULE Spec2Model ----
(***************************************************************************)
(* Folder-hierarchy reconstruction of grenlite-ega (src/app.py):           *)
(* build_folder_hierarchy, find_folder_by_id_in_hierarchy and the          *)
(* endpoints /folders, /subfolders/{server_id} and                         *)
(* /folders_get_children/{server_id} that run them on the item batch       *)
(* fetched from the remote list.                                           *)
(*                                                                         *)
(* Python strings are sequences of character codes, so that strip, split,  *)
(* lower and the string order are computed and not assumed.  Python None   *)
(* (an absent key of the JSON item) is the sequence <<-1>>, which is no    *)
(* string.                                                                 *)
(***************************************************************************)
EXTENDS Integers, Sequences, FiniteSets, TLC

VARIABLES
    all_items,   \* the items of the remote list, as the next fetch returns them
    response,    \* the response of the request being served, or NoResponse
    earlier      \* a build observed earlier: its batch and the forest it returned

vars == <<all_items, response, earlier>>

----------------------------------------------------------------------------
(* Bounds *)

MaxItems == 3
MaxChildItems == 3
MaxPureItems == 2

----------------------------------------------------------------------------
(* Strings *)

None == <<-1>>

QUOTE == 34
COMMA == 44

Truthy(s) == s # None /\ s # <<>>

RECURSIVE lstrip(_, _)
lstrip(s, c) ==
    IF s # <<>> /\ Head(s) = c THEN lstrip(Tail(s), c) ELSE s

RECURSIVE rstrip(_, _)
rstrip(s, c) ==
    IF s # <<>> /\ s[Len(s)] = c THEN rstrip(SubSeq(s, 1, Len(s) - 1), c) ELSE s

strip(s, c) == rstrip(lstrip(s, c), c)

RECURSIVE split_first(_, _)
split_first(s, c) ==
    IF s = <<>> \/ Head(s) = c THEN <<>>
    ELSE <<Head(s)>> \o split_first(Tail(s), c)

lower_char(c) == IF c >= 65 /\ c <= 90 THEN c + 32 ELSE c

lower(s) == [i \in 1..Len(s) |-> lower_char(s[i])]

RECURSIVE str_le(_, _)
str_le(s, t) ==
    IF s = <<>> THEN TRUE
    ELSE IF t = <<>> THEN FALSE
    ELSE IF Head(s) < Head(t) THEN TRUE
    ELSE IF Head(s) > Head(t) THEN FALSE
    ELSE str_le(Tail(s), Tail(t))

get_default(v, default) == IF v = None THEN default ELSE v

----------------------------------------------------------------------------
(* build_folder_hierarchy *)

(* the helper of folders_get_children *)
extract_server_id(item) ==
    split_first(strip(get_default(item.etag, <<>>), QUOTE), COMMA)

(* the derivation written out inside the build's loop *)
build_server_id_NoStrip(item) ==
    split_first(get_default(item.etag, <<>>), COMMA)

build_server_id(item) ==
    split_first(strip(get_default(item.etag, <<>>), QUOTE), COMMA)

make_node(item) ==
    [name     |-> item.name,
     serverID |-> build_server_id(item),
     parentID |-> item.parent,
     children |-> <<>>,
     rawItem  |-> item]

Keys(nodes) == {nodes[i].serverID : i \in 1..Len(nodes)}

KeyIndex(nodes, key) == CHOOSE i \in 1..Len(nodes) : nodes[i].serverID = key

dict_set_FirstWins(nodes, key, node) ==
    IF key \in Keys(nodes) THEN nodes ELSE Append(nodes, node)

dict_set(nodes, key, node) ==
    IF key \in Keys(nodes)
    THEN [nodes EXCEPT ![KeyIndex(nodes, key)] = node]
    ELSE Append(nodes, node)

dict_get(nodes, key) == nodes[KeyIndex(nodes, key)]

InitialIndex_Stale == earlier.hierarchy.nodes

InitialIndex == <<>>

RECURSIVE index_items(_, _)
index_items(nodes, items) ==
    IF items = <<>> THEN nodes
    ELSE LET node == make_node(Head(items))
         IN  index_items(dict_set(nodes, node.serverID, node), Tail(items))

is_child(nodes, pid) == Truthy(pid) /\ pid \in Keys(nodes)

link_step_RootsToo(acc, node) ==
    LET pid == node.parentID
    IN  [nodes |-> IF is_child(acc.nodes, pid)
                   THEN [acc.nodes EXCEPT ![KeyIndex(acc.nodes, pid)].children =
                                              Append(@, node.serverID)]
                   ELSE acc.nodes,
         roots |-> Append(acc.roots, node.serverID)]

link_step_DropOrphans(acc, node) ==
    LET pid == node.parentID
    IN  IF is_child(acc.nodes, pid)
        THEN [nodes |-> [acc.nodes EXCEPT ![KeyIndex(acc.nodes, pid)].children =
                                             Append(@, node.serverID)],
              roots |-> acc.roots]
        ELSE IF pid = None
        THEN [nodes |-> acc.nodes,
              roots |-> Append(acc.roots, node.serverID)]
        ELSE acc

link_step_Prepend(acc, node) ==
    LET pid == node.parentID
    IN  IF is_child(acc.nodes, pid)
        THEN [nodes |-> [acc.nodes EXCEPT ![KeyIndex(acc.nodes, pid)].children =
                                             <<node.serverID>> \o @],
              roots |-> acc.roots]
        ELSE [nodes |-> acc.nodes,
              roots |-> <<node.serverID>> \o acc.roots]

link_step(acc, node) ==
    LET pid == node.parentID
    IN  IF is_child(acc.nodes, pid)
        THEN [nodes |-> [acc.nodes EXCEPT ![KeyIndex(acc.nodes, pid)].children =
                                             Append(@, node.serverID)],
              roots |-> acc.roots]
        ELSE [nodes |-> acc.nodes,
              roots |-> Append(acc.roots, node.serverID)]

RECURSIVE link_nodes(_, _, _)
link_nodes(nodes, i, roots) ==
    IF i > Len(nodes) THEN [nodes |-> nodes, roots |-> roots]
    ELSE LET acc == link_step([nodes |-> nodes, roots |-> roots], nodes[i])
         IN  link_nodes(acc.nodes, i + 1, acc.roots)

build_folder_hierarchy(items) ==
    link_nodes(index_items(InitialIndex, items), 1, <<>>)

----------------------------------------------------------------------------
(* find_folder_by_id_in_hierarchy *)

NoneNode == [none |-> TRUE]
RecursionError == [error |-> "RecursionError"]

MaxDepth == MaxItems + MaxChildItems + 2

is_match_ByName(node, target_id) == node.name = target_id

is_match(node, target_id) == node.serverID = target_id

RECURSIVE find_in(_, _, _, _)
find_in(nodes, tree, target_id, depth) ==
    IF depth > MaxDepth THEN RecursionError
    ELSE IF tree = <<>> THEN NoneNode
    ELSE LET node == dict_get(nodes, Head(tree))
         IN  IF is_match(node, target_id) THEN node
             ELSE LET result == find_in(nodes, node.children, target_id, depth + 1)
                  IN  IF result # NoneNode THEN result
                      ELSE find_in(nodes, Tail(tree), target_id, depth)

find_folder_RootsOnly(hierarchy, target_id) ==
    find_in([i \in 1..Len(hierarchy.nodes) |->
                [hierarchy.nodes[i] EXCEPT !.children = <<>>]],
            hierarchy.roots, target_id, 1)

find_folder_by_id_in_hierarchy(hierarchy, target_id) ==
    find_in(hierarchy.nodes, hierarchy.roots, target_id, 1)

----------------------------------------------------------------------------
(* The remote list and the requests *)

(* @odata.etag with an entity id: "\"a,1\"", "b", "c,2" *)
IdTags == { <<34, 97, 44, 49, 34>>, <<98>>, <<99, 44, 50>> }

(* @odata.etag without one: "" *)
EmptyTags == { <<>> }

(* fields.FileLeafRef: "B", "a" *)
TreeNames == { <<66>>, <<97>> }

(* items of the batches of Spec: every tag with an entity id, named "B",   *)
(* under no parent, parent "a" or parent "b"; the tag "b" under either     *)
(* name, with no parent or parent "a"; and the degraded items: the empty   *)
(* tag under no parent, parent "" or parent "a", and parent "" under a tag *)
(* with an entity id                                                       *)
TreeItems ==
    [etag : IdTags, parent : { None, <<97>>, <<98>> }, name : { <<66>> },
     kind : {"Folder"}]
    \cup [etag : { <<98>> }, parent : { None, <<97>> }, name : TreeNames,
          kind : {"Folder"}]
    \cup [etag : EmptyTags, parent : { None, <<>>, <<97>> }, name : { <<66>> },
          kind : {"Folder"}]
    \cup [etag : { <<34, 97, 44, 49, 34>> }, parent : { <<>> }, name : { <<66>> },
          kind : {"Folder"}]

(* requested server_id, a path parameter and so never empty: "a", "b",     *)
(* "c", "z"                                                                *)
Targets == { <<97>>, <<98>>, <<99>>, <<122>> }

(* fields.FileLeafRef of the batches of SpecChildren: "B", "a", "b", absent *)
ChildNames == { <<66>>, <<97>>, <<98>>, None }

(* items of the batches of SpecChildren: the items "b" under parent "a",   *)
(* folders and documents, named or not; the folders "a" under no parent,   *)
(* parent "" or parent "a"; and the folders with the empty tag under no    *)
(* parent or parent ""                                                     *)
ChildItems ==
    [etag : { <<98>> }, parent : { <<97>> }, name : ChildNames,
     kind : {"Folder", "Document"}]
    \cup [etag : { <<34, 97, 44, 49, 34>> }, parent : { None, <<>>, <<97>> },
          name : { <<66>>, <<97>> }, kind : {"Folder"}]
    \cup [etag : EmptyTags, parent : { None, <<>> }, name : { <<97>> },
          kind : {"Folder"}]

(* requested server_id of SpecChildren, a path parameter and so never      *)
(* empty: "a", "b", "z"                                                    *)
ChildTargets == { <<97>>, <<98>>, <<122>> }

NoResponse == [op |-> "none"]

EmptyHierarchy == [nodes |-> <<>>, roots |-> <<>>]

NoEarlier ==
    [seen |-> FALSE, items |-> <<>>, hierarchy |-> EmptyHierarchy,
     between |-> FALSE]

Init ==
    /\ all_items = <<>>
    /\ response = NoResponse
    /\ earlier = NoEarlier

RemoteAdd(Domain, max) ==
    /\ response = NoResponse
    /\ Len(all_items) < max
    /\ \E item \in Domain : all_items' = Append(all_items, item)
    /\ UNCHANGED <<response, earlier>>

RemoteAddTree == RemoteAdd(TreeItems, MaxItems)

(* earlier.between records that a build on another batch has run since    *)
(* the build that earlier holds                                           *)
get_folders ==
    /\ response = NoResponse
    /\ response' = [op |-> "folders", status |-> 200,
                    body |-> build_folder_hierarchy(all_items)]
    /\ earlier' = IF earlier.seen /\ all_items # earlier.items
                  THEN [earlier EXCEPT !.between = TRUE]
                  ELSE earlier
    /\ UNCHANGED all_items

subfolders_response(items, server_id) ==
    LET hierarchy     == build_folder_hierarchy(items)
        matching_node == find_folder_by_id_in_hierarchy(hierarchy, server_id)
    IN  IF matching_node = RecursionError
        THEN [op |-> "subfolders", target |-> server_id, status |-> 500,
              detail |-> "Internal Server Error"]
        ELSE IF matching_node = NoneNode
        THEN [op |-> "subfolders", target |-> server_id, status |-> 404,
              detail |-> "Folder not found."]
        ELSE [op |-> "subfolders", target |-> server_id, status |-> 200,
              body |-> matching_node, hierarchy |-> hierarchy]

get_subfolders ==
    /\ response = NoResponse
    /\ \E server_id \in Targets :
          response' = subfolders_response(all_items, server_id)
    /\ UNCHANGED <<all_items, earlier>>

Deliver ==
    /\ response # NoResponse
    /\ response' = NoResponse
    /\ UNCHANGED <<all_items, earlier>>

Next == RemoteAddTree \/ get_folders \/ get_subfolders \/ Deliver

Spec == Init /\ [][Next]_vars

----------------------------------------------------------------------------
(* folders_get_children *)

NoneItem == [none |-> TRUE]

(* next((item for item in all_items if extract_server_id(item) == id), None) *)
RECURSIVE first_with_id(_, _)
first_with_id(items, id) ==
    IF items = <<>> THEN NoneItem
    ELSE IF extract_server_id(Head(items)) = id THEN Head(items)
    ELSE first_with_id(Tail(items), id)

resolve_parent_name(items, parent_id) ==
    IF Truthy(parent_id)
    THEN LET parent_item == first_with_id(items, parent_id)
         IN  IF parent_item # NoneItem THEN parent_item.name ELSE None
    ELSE None

is_child_folder(item, server_id) ==
    item.parent = server_id /\ item.kind = "Folder"

RECURSIVE collect_child_folders(_, _)
collect_child_folders(items, server_id) ==
    IF items = <<>> THEN <<>>
    ELSE LET rest == collect_child_folders(Tail(items), server_id)
         IN  IF is_child_folder(Head(items), server_id)
             THEN << [name     |-> Head(items).name,
                      serverId |-> extract_server_id(Head(items))] >> \o rest
             ELSE rest

sort_key_CaseSensitive(child) == child.name

sort_key(child) == lower(child.name)

(* list.sort is stable: an element goes behind the elements whose key is  *)
(* not greater                                                            *)
RECURSIVE insert_sorted(_, _)
insert_sorted(sorted, child) ==
    IF sorted = <<>> THEN <<child>>
    ELSE IF str_le(sort_key(Head(sorted)), sort_key(child))
         THEN <<Head(sorted)>> \o insert_sorted(Tail(sorted), child)
         ELSE <<child>> \o sorted

RECURSIVE sort_children(_, _)
sort_children(sorted, children) ==
    IF children = <<>> THEN sorted
    ELSE sort_children(insert_sorted(sorted, Head(children)), Tail(children))

children_response(items, server_id) ==
    LET queried_item  == first_with_id(items, server_id)
        child_folders == collect_child_folders(items, server_id)
    IN  IF queried_item = NoneItem
        THEN [op |-> "children", target |-> server_id, status |-> 404,
              detail |-> "Folder not found."]
        ELSE IF \E i \in 1..Len(child_folders) : child_folders[i].name = None
        THEN \* None has no lower(): AttributeError in the sort key
             [op |-> "children", target |-> server_id, status |-> 500,
              detail |-> "Internal Server Error"]
        ELSE [op |-> "children", target |-> server_id, status |-> 200,
              body |->
                [queriedFolderParentId   |-> queried_item.parent,
                 queriedFolderParentName |->
                     resolve_parent_name(items, queried_item.parent),
                 queriedFolderServerId   |-> server_id,
                 queriedFolderName       |-> queried_item.name,
                 childrenFolders         |-> sort_children(<<>>, child_folders)]]

folders_get_children ==
    /\ response = NoResponse
    /\ \E server_id \in ChildTargets :
          response' = children_response(all_items, server_id)
    /\ UNCHANGED <<all_items, earlier>>

RemoteAddChild == RemoteAdd(ChildItems, MaxChildItems)

NextChildren == RemoteAddChild \/ folders_get_children \/ Deliver

SpecChildren == Init /\ [][NextChildren]_vars

----------------------------------------------------------------------------
(* Builds of one batch at different times *)

(* items of the batches of SpecPure *)
PureItems ==
    [etag : { <<>>, <<34, 97, 44, 49, 34>>, <<98>> }, parent : { None, <<97>> },
     name : { <<66>> }, kind : {"Folder"}]

RemoteAddPure == RemoteAdd(PureItems, MaxPureItems)

(* the remote list loses its last item between two requests *)
RemoteRemove ==
    /\ response = NoResponse
    /\ all_items # <<>>
    /\ all_items' = SubSeq(all_items, 1, Len(all_items) - 1)
    /\ UNCHANGED <<response, earlier>>

(* the caller keeps the forest /folders returned for the current batch *)
Remember ==
    /\ response # NoResponse
    /\ response.op = "folders"
    /\ earlier' = [seen |-> TRUE, items |-> all_items,
                   hierarchy |-> response.body, between |-> FALSE]
    /\ response' = NoResponse
    /\ UNCHANGED all_items

NextPure == RemoteAddPure \/ RemoteRemove \/ get_folders \/ Remember \/ Deliver

SpecPure == Init /\ [][NextPure]_vars

----------------------------------------------------------------------------
(* Vocabulary of the properties *)

IdsOf(items) == [i \in 1..Len(items) |-> extract_server_id(items[i])]

IdSet(items) == {extract_server_id(items[i]) : i \in 1..Len(items)}

Count(seq, v) == Cardinality({i \in 1..Len(seq) : seq[i] = v})

SameMultiset(s, t) ==
    /\ Len(s) = Len(t)
    /\ \A i \in 1..Len(s) : Count(s, s[i]) = Count(t, s[i])

UniqueIds(items) ==
    \A i, j \in 1..Len(items) :
        extract_server_id(items[i]) = extract_server_id(items[j]) => i = j

(* the tag has the form <entityId>,<revision> with a non-empty entity id *)
WellFormedTag(item) ==
    LET bare == strip(item.etag, QUOTE)
    IN  /\ item.etag # None
        /\ \E i \in 2..Len(bare) : bare[i] = COMMA
        /\ bare[1] # COMMA

NonEmptyIds(items) == \A i \in 1..Len(items) : extract_server_id(items[i]) # <<>>

HasParent(item) == item.parent # None

Dangling(items, item) == HasParent(item) /\ item.parent \notin IdSet(items)

NoDangling(items) == \A i \in 1..Len(items) : ~Dangling(items, items[i])

LastIndex(items, id) ==
    CHOOSE i \in 1..Len(items) :
        /\ extract_server_id(items[i]) = id
        /\ \A j \in (i + 1)..Len(items) : extract_server_id(items[j]) # id

IsLast(items, i) == LastIndex(items, extract_server_id(items[i])) = i

(* the item reached from item i by following n parent references, 0 when  *)
(* the chain has ended before at an item with no parent in the batch      *)
RECURSIVE Ancestor(_, _, _)
Ancestor(items, i, n) ==
    IF n = 0 \/ i = 0 THEN i
    ELSE IF HasParent(items[i]) /\ items[i].parent \in IdSet(items)
         THEN Ancestor(items, LastIndex(items, items[i].parent), n - 1)
         ELSE 0

Rooted(items, i) == Ancestor(items, i, Len(items)) = 0

Acyclic(items) == \A i \in 1..Len(items) : Rooted(items, i)

(* the ids met by walking the forest from its roots, parents before       *)
(* children, at most fuel nodes deep                                      *)
RECURSIVE Preorder(_, _, _)
Preorder(nodes, tree, fuel) ==
    IF tree = <<>> \/ fuel = 0 THEN <<>>
    ELSE IF Head(tree) \notin Keys(nodes) THEN Preorder(nodes, Tail(tree), fuel)
    ELSE <<Head(tree)>>
         \o Preorder(nodes, dict_get(nodes, Head(tree)).children, fuel - 1)
         \o Preorder(nodes, Tail(tree), fuel)

ForestIds(hierarchy) == Preorder(hierarchy.nodes, hierarchy.roots, MaxDepth)

IsFolders == response.op = "folders"

IsSubfolders == response.op = "subfolders"

----------------------------------------------------------------------------
(* C1: for a non-empty batch with unique, well-formed ids and no dangling  *)
(* parent reference, the ids met by traversing the forest returned by      *)
(* build_folder_hierarchy are, as a multiset, the ids of the input items.  *)
(* As stated this fails when parent references form a cycle.               *)
C1_AsClaimed ==
    ( /\ IsFolders
      /\ all_items # <<>>
      /\ UniqueIds(all_items)
      /\ \A i \in 1..Len(all_items) : WellFormedTag(all_items[i])
      /\ NoDangling(all_items) )
    => SameMultiset(ForestIds(response.body), IdsOf(all_items))

(* C1 amended: the same, for batches whose parent references are acyclic   *)
(* (every item's parent chain ends at an item without a parent); the ids   *)
(* need only be unique and non-empty.                                      *)
C1_EveryItemOnce ==
    ( /\ IsFolders
      /\ all_items # <<>>
      /\ UniqueIds(all_items)
      /\ NonEmptyIds(all_items)
      /\ NoDangling(all_items)
      /\ Acyclic(all_items) )
    => SameMultiset(ForestIds(response.body), IdsOf(all_items))

C1_Witness ==
    /\ IsFolders
    /\ Len(all_items) = 3
    /\ UniqueIds(all_items) /\ NonEmptyIds(all_items)
    /\ NoDangling(all_items) /\ Acyclic(all_items)
    /\ \E i \in 1..Len(all_items) : HasParent(all_items[i])
    /\ Len(response.body.roots) < Len(all_items)

----------------------------------------------------------------------------
(* C2: for a well-formed, non-colliding batch and every item x of it,      *)
(* find_folder_by_id_in_hierarchy(build_folder_hierarchy(items), x.id)     *)
(* returns a node whose serverID is x's derived id and whose name is x's   *)
(* display name.  As stated this fails for an item on a parent cycle.      *)
C2_AsClaimed ==
    ( /\ IsSubfolders
      /\ UniqueIds(all_items)
      /\ \A i \in 1..Len(all_items) : WellFormedTag(all_items[i]) )
    => \A i \in 1..Len(all_items) :
          extract_server_id(all_items[i]) = response.target
          => /\ response.status = 200
             /\ response.body.serverID = extract_server_id(all_items[i])
             /\ response.body.name = all_items[i].name

(* C2 amended: the same for every item x whose chain of parent references  *)
(* ends at an item without a parent in the batch (x is on no parent cycle  *)
(* and below none); the ids need only be unique and non-empty.             *)
C2_FindReturnsItem ==
    ( /\ IsSubfolders
      /\ UniqueIds(all_items)
      /\ NonEmptyIds(all_items) )
    => \A i \in 1..Len(all_items) :
          ( /\ extract_server_id(all_items[i]) = response.target
            /\ Rooted(all_items, i) )
          => /\ response.status = 200
             /\ response.body.serverID = extract_server_id(all_items[i])
             /\ response.body.name = all_items[i].name
             /\ response.body.rawItem = all_items[i]

C2_Witness ==
    /\ IsSubfolders
    /\ UniqueIds(all_items) /\ NonEmptyIds(all_items)
    /\ response.status = 200
    /\ response.body.serverID \notin
          {response.hierarchy.roots[r] : r \in 1..Len(response.hierarchy.roots)}
    /\ \E i \in 1..Len(all_items) :
          /\ extract_server_id(all_items[i]) = response.target
          /\ Rooted(all_items, i)

----------------------------------------------------------------------------
RootSet(hierarchy) == {hierarchy.roots[r] : r \in 1..Len(hierarchy.roots)}

(* batch [A(no parent), B(parent A), C(parent Z)] of the specification's   *)
(* scenario, with ids "a", "b", "c" and names "R", "C", "O"                *)
ExampleBatch ==
    << [etag |-> <<34, 97, 44, 49, 34>>, parent |-> None, name |-> <<82>>,
        kind |-> "Folder"],
       [etag |-> <<34, 98, 44, 49, 34>>, parent |-> <<97>>, name |-> <<67>>,
        kind |-> "Folder"],
       [etag |-> <<34, 99, 44, 49, 34>>, parent |-> <<122>>, name |-> <<79>>,
        kind |-> "Folder"] >>

ExampleForest ==
    LET h == build_folder_hierarchy(ExampleBatch)
    IN  /\ h.roots = << <<97>>, <<99>> >>
        /\ dict_get(h.nodes, <<97>>).children = << <<98>> >>
        /\ dict_get(h.nodes, <<98>>).children = <<>>
        /\ dict_get(h.nodes, <<99>>).children = <<>>
        /\ dict_get(h.nodes, <<97>>).name = <<82>>
        /\ dict_get(h.nodes, <<99>>).name = <<79>>

(* C3: for every batch and every item whose parent id is absent or refers  *)
(* to an id not in the batch, a node for that item is in roots.  As stated *)
(* this fails for an item whose id a later item of the batch carries too.  *)
C3_AsClaimed ==
    IsFolders =>
        \A i \in 1..Len(all_items) :
            (~HasParent(all_items[i]) \/ Dangling(all_items, all_items[i]))
            => extract_server_id(all_items[i]) \in RootSet(response.body)

(* C3 amended: for every batch and every item that is the last of the      *)
(* batch with its derived id and whose parent id is absent or not an id of *)
(* the batch, the node built for that item is in roots, once; and the      *)
(* batch [A, B(parent A), C(parent Z)] gives exactly [A[B], C].            *)
C3_ParentlessAreRoots ==
    IsFolders =>
        /\ \A i \in 1..Len(all_items) :
              ( /\ IsLast(all_items, i)
                /\ ~HasParent(all_items[i]) \/ Dangling(all_items, all_items[i]) )
              => /\ Count(response.body.roots, extract_server_id(all_items[i])) = 1
                 /\ dict_get(response.body.nodes,
                             extract_server_id(all_items[i])).rawItem = all_items[i]
        /\ ExampleForest

C3_Witness ==
    /\ IsFolders
    /\ Len(all_items) = 3
    /\ UniqueIds(all_items)
    /\ ~HasParent(all_items[1])
    /\ all_items[2].parent = extract_server_id(all_items[1])
    /\ Dangling(all_items, all_items[3])
    /\ all_items[3].parent # <<>>
    /\ Len(response.body.roots) = 2

----------------------------------------------------------------------------
(* C4: after build_folder_hierarchy every node whose parentID is present   *)
(* and is a key of the index is exactly once among the children of the     *)
(* node with that id, among no other node's children, and not in roots.    *)
C4_ChildOfItsParentOnly ==
    IsFolders =>
        LET nodes == response.body.nodes
        IN  \A i \in 1..Len(nodes) :
                (nodes[i].parentID # None /\ nodes[i].parentID \in Keys(nodes))
                => /\ Count(dict_get(nodes, nodes[i].parentID).children,
                            nodes[i].serverID) = 1
                   /\ \A j \in 1..Len(nodes) :
                         nodes[j].serverID # nodes[i].parentID
                         => Count(nodes[j].children, nodes[i].serverID) = 0
                   /\ nodes[i].serverID \notin RootSet(response.body)

----------------------------------------------------------------------------
(* C5: for every batch and every target that is the derived id of no item  *)
(* of it, the lookup on the built forest finds nothing and /subfolders     *)
(* answers 404 'Folder not found.'; an answer carrying a node, with or     *)
(* without children, is given only for the id of an item of the batch.     *)
C5_AbsentIsNotFound ==
    IsSubfolders =>
        /\ response.target \notin IdSet(all_items)
           => /\ response.status = 404
              /\ response.detail = "Folder not found."
        /\ response.status = 200
           => /\ response.target \in IdSet(all_items)
              /\ response.body # NoneNode
              /\ response.body.serverID = response.target
        /\ response.status \in {200, 404}

C5_Witness ==
    /\ IsSubfolders
    /\ Len(all_items) >= 2
    /\ response.target \notin IdSet(all_items)
    /\ \E i \in 1..Len(all_items) : all_items[i].parent = response.target
    /\ response.status = 404

----------------------------------------------------------------------------
(* C9: when several items of a batch have the same derived id (the empty   *)
(* id of two empty version tags included), the index keeps exactly one     *)
(* node for that id, with the name, parent id and raw item of the last     *)
(* such item in input order; the forest holds that id at most once and an  *)
(* earlier item with that id nowhere.                                      *)
C9_LastWriteWins ==
    IsFolders =>
        LET nodes == response.body.nodes
        IN  /\ \A i \in 1..Len(all_items) :
                  LET id   == extract_server_id(all_items[i])
                      last == all_items[LastIndex(all_items, id)]
                  IN  /\ Cardinality({k \in 1..Len(nodes) : nodes[k].serverID = id}) = 1
                      /\ dict_get(nodes, id).name = last.name
                      /\ dict_get(nodes, id).parentID = last.parent
                      /\ dict_get(nodes, id).rawItem = last
                      /\ Count(ForestIds(response.body), id) <= 1
            /\ \A k \in 1..Len(nodes) :
                  /\ nodes[k].serverID \in IdSet(all_items)
                  /\ nodes[k].rawItem =
                        all_items[LastIndex(all_items, nodes[k].serverID)]

C9_Witness ==
    /\ IsFolders
    /\ Len(all_items) = 3
    /\ all_items[1].etag = <<>> /\ all_items[3].etag = <<>>
    /\ all_items[1] # all_items[3]
    /\ extract_server_id(all_items[2]) # <<>>
    /\ Len(response.body.nodes) = 2

----------------------------------------------------------------------------
----------------------------------------------------------------------------
IsChildren == response.op = "children"

FirstIndex(items, id) ==
    CHOOSE i \in 1..Len(items) :
        /\ extract_server_id(items[i]) = id
        /\ \A j \in 1..(i - 1) : extract_server_id(items[j]) # id

(* the items the query is to list for a target *)
ChildFolderIndexes(items, target) ==
    {i \in 1..Len(items) : items[i].parent = target /\ items[i].kind = "Folder"}

PairOf(item) == [name |-> item.name, serverId |-> extract_server_id(item)]

----------------------------------------------------------------------------
(* C7: the immediate-children query answers 404 exactly when no item of    *)
(* the batch has the target as derived id, and whenever some item has it   *)
(* (the empty id of an empty version tag included) it returns the result   *)
(* record of that item.                                                    *)
C7_NotFoundIffAbsent ==
    IsChildren =>
        /\ response.status = 404 <=> response.target \notin IdSet(all_items)
        /\ response.target \in IdSet(all_items)
           => /\ response.status = 200
              /\ response.body.queriedFolderServerId = response.target
              /\ response.body.queriedFolderName =
                    all_items[FirstIndex(all_items, response.target)].name

----------------------------------------------------------------------------
(* C8: in the result of the immediate-children query the parent name is    *)
(* the display name of an item of the batch whose derived id is the        *)
(* queried item's parent id when there is such an item, and absent when    *)
(* the queried item has no parent id or no item of the batch has it; the   *)
(* parent id returned is the queried item's parent id.                     *)
C8_ParentNameResolved ==
    (IsChildren /\ response.status = 200) =>
        LET queried == all_items[FirstIndex(all_items, response.target)]
        IN  /\ response.body.queriedFolderParentId = queried.parent
            /\ IF HasParent(queried) /\ queried.parent \in IdSet(all_items)
               THEN response.body.queriedFolderParentName \in
                       {all_items[i].name :
                          i \in {j \in 1..Len(all_items) :
                                   extract_server_id(all_items[j]) = queried.parent}}
               ELSE response.body.queriedFolderParentName = None

----------------------------------------------------------------------------
(* C11: every operation of the hierarchy builder is total: for every batch *)
(* the item source may deliver (display name absent included) and every    *)
(* target the immediate-children query ends in a result or in not-found,   *)
(* never in an unhandled failure.                                          *)
C11_ChildrenQueryTotal ==
    IsChildren => response.status \in {200, 404}

----------------------------------------------------------------------------
NoDuplicates(seq) == \A i, j \in 1..Len(seq) : seq[i] = seq[j] => i = j

SelfOrCyclicParent(items, i) == ~Rooted(items, i)

(* C18: find_folder_by_id_in_hierarchy terminates on every forest built,   *)
(* for every batch and target; no id occurs twice among the nodes          *)
(* reachable from roots, and a node whose item names itself as parent or   *)
(* lies on a cycle of parent references is not reachable from roots.       *)
C18_CyclesUnreachable ==
    /\ IsSubfolders => response.status \in {200, 404}
    /\ IsFolders =>
          /\ NoDuplicates(ForestIds(response.body))
          /\ \A i \in 1..Len(all_items) :
                (IsLast(all_items, i) /\ SelfOrCyclicParent(all_items, i))
                => Count(ForestIds(response.body),
                         extract_server_id(all_items[i])) = 0

(* the part of C18 that holds of every batch: the lookup terminates and    *)
(* the forest holds no id twice                                            *)
C18_TerminatesNoDuplicates ==
    /\ IsSubfolders => response.status \in {200, 404}
    /\ IsFolders => NoDuplicates(ForestIds(response.body))

----------------------------------------------------------------------------
(* position in the batch of the item a node of the forest is built from *)
ItemIndexOf(items, id) == LastIndex(items, id)

InputOrdered(items, ids) ==
    \A j, k \in 1..Len(ids) :
        j < k => ItemIndexOf(items, ids[j]) < ItemIndexOf(items, ids[k])

(* C20: for a batch with unique ids roots lists the root nodes, and every  *)
(* node's children sequence its children, in the relative order of their   *)
(* items in the batch, whether a child precedes or follows its parent.     *)
C20_InputOrderKept ==
    (IsFolders /\ UniqueIds(all_items)) =>
        /\ InputOrdered(all_items, response.body.roots)
        /\ \A k \in 1..Len(response.body.nodes) :
              InputOrdered(all_items, response.body.nodes[k].children)

C20_Witness ==
    /\ IsFolders
    /\ Len(all_items) = 3
    /\ UniqueIds(all_items)
    /\ all_items[1].parent = extract_server_id(all_items[2])
    /\ all_items[3].parent = extract_server_id(all_items[2])
    /\ ~HasParent(all_items[2])
    /\ response.body.roots = << extract_server_id(all_items[2]) >>
    /\ dict_get(response.body.nodes, extract_server_id(all_items[2])).children =
          << extract_server_id(all_items[1]), extract_server_id(all_items[3]) >>

----------------------------------------------------------------------------
(* ids of the children of a node of the forest whose raw item is a Folder *)
FolderChildIds(hierarchy, node) ==
    { node.children[k] : k \in
        { j \in 1..Len(node.children) :
            dict_get(hierarchy.nodes, node.children[j]).rawItem.kind = "Folder" } }

QueryChildIds(body) ==
    { body.childrenFolders[k].serverId : k \in 1..Len(body.childrenFolders) }

(* C19: on the same batch and target the immediate-children query finds    *)
(* its target exactly when the lookup in the built forest finds a node;    *)
(* when both find it the names are equal, and the ids of the query's       *)
(* children are the ids of the found node's children of kind Folder; for   *)
(* every batch, duplicate ids, self-parent and cyclic references included. *)
C19_QueryAgreesWithTree ==
    IsChildren =>
        LET hierarchy == build_folder_hierarchy(all_items)
            node == find_folder_by_id_in_hierarchy(hierarchy, response.target)
        IN  /\ (response.status = 404) <=> (node = NoneNode)
            /\ response.status = 200 =>
                  /\ response.body.queriedFolderName = node.name
                  /\ QueryChildIds(response.body) = FolderChildIds(hierarchy, node)

(* the same agreement asked only of batches with unique ids in which every *)
(* item is rooted and no parent id is the empty string                     *)
C19_AgreesOnPlainBatches ==
    (IsChildren /\ UniqueIds(all_items)
       /\ \A i \in 1..Len(all_items) :
              Rooted(all_items, i) /\ all_items[i].parent # <<>>)
    => C19_QueryAgreesWithTree

----------------------------------------------------------------------------
(* Version tags: a batch of the item source whose tags are missing, empty, *)
(* quoted or not, with or without a revision                               *)

MaxTagItems == 2

(* no tag, "", "\"\"", "\"a,1\"", "a,2", "b", "\"b\"", ",1", "\"a\",3" *)
Tags ==
    { None, <<>>, <<34, 34>>, <<34, 97, 44, 49, 34>>, <<97, 44, 50>>, <<98>>,
      <<34, 98, 34>>, <<44, 49>>, <<34, 97, 34, 44, 51>> }

TagItems ==
    [etag : Tags, parent : { None, <<97>> }, name : { <<66>> },
     kind : {"Folder"}]

RemoteAddTag == RemoteAdd(TagItems, MaxTagItems)

NextTags == RemoteAddTag \/ get_folders \/ folders_get_children \/ Deliver

SpecTags == Init /\ [][NextTags]_vars

TagText(tag) == IF tag = None THEN <<>> ELSE tag

LeadingQuotes(s) ==
    CHOOSE a \in 0..Len(s) :
        /\ \A k \in 1..a : s[k] = QUOTE
        /\ a = Len(s) \/ s[a + 1] # QUOTE

TrailingQuotes(s) ==
    CHOOSE b \in 0..Len(s) :
        /\ \A k \in (Len(s) - b + 1)..Len(s) : s[k] = QUOTE
        /\ b = Len(s) \/ s[Len(s) - b] # QUOTE

Unwrapped(s) ==
    IF LeadingQuotes(s) = Len(s) THEN <<>>
    ELSE SubSeq(s, LeadingQuotes(s) + 1, Len(s) - TrailingQuotes(s))

BeforeFirstComma(s) ==
    LET commas == { k \in 1..Len(s) : s[k] = COMMA }
    IN  IF commas = {} THEN s
        ELSE SubSeq(s, 1, (CHOOSE k \in commas : \A j \in commas : k <= j) - 1)

DerivedId(tag) == BeforeFirstComma(Unwrapped(TagText(tag)))

DerivedIds(items) == { DerivedId(items[i].etag) : i \in 1..Len(items) }

(* C14: the derived id of an item is its version tag without the wrapping  *)
(* double quotes, cut before the first comma (the whole of it when there   *)
(* is no comma); an empty or missing tag gives the empty string, which is  *)
(* a key of the index like any other; the tree build and the               *)
(* immediate-children query derive the same id from the same item.         *)
C14_DerivedId ==
    /\ \A i \in 1..Len(all_items) :
          /\ build_server_id(all_items[i]) = DerivedId(all_items[i].etag)
          /\ extract_server_id(all_items[i]) = DerivedId(all_items[i].etag)
    /\ IsFolders =>
          /\ Keys(response.body.nodes) = DerivedIds(all_items)
          /\ \A k \in 1..Len(response.body.nodes) :
                response.body.nodes[k].serverID =
                    DerivedId(response.body.nodes[k].rawItem.etag)
    /\ IsChildren =>
          /\ (response.status = 404) <=> (response.target \notin DerivedIds(all_items))
          /\ response.status = 200 =>
                QueryChildIds(response.body) =
                    { DerivedId(all_items[i].etag) :
                        i \in { j \in 1..Len(all_items) :
                                  all_items[j].parent = response.target } }

C14_Witness ==
    /\ IsFolders
    /\ Len(all_items) = 2
    /\ all_items[1].etag = None
    /\ all_items[2].etag = <<34, 97, 34, 44, 51>>
    /\ response.body.roots = << <<>>, <<97, 34>> >>

----------------------------------------------------------------------------
(* upload_file and delete_file                                             *)
(*                                                                         *)
(* A text of these two handlers is a sequence of tokens, every token a     *)
(* piece of the text that the handlers' string operations (startswith,     *)
(* split, replace, the f-strings) take or leave as a whole.  The remote    *)
(* store's reply to a request is an input of the handler.                  *)

JsonNull == [null |-> TRUE]

(* a key that the JSON body does not have *)
Absent == <<"(absent)">>

(* dict.get(key, default) of a text *)
get_text(value, default) == IF value = Absent THEN default ELSE value

NotCalled == [called |-> FALSE]

(* str.replace(token, "") *)
RECURSIVE replace_with_empty(_, _)
replace_with_empty(text, token) ==
    IF text = <<>> THEN <<>>
    ELSE IF Head(text) = token THEN replace_with_empty(Tail(text), token)
    ELSE <<Head(text)>> \o replace_with_empty(Tail(text), token)

startswith(text, token) == text # <<>> /\ Head(text) = token

(* str.split(sep): the parts between the separators, empty parts included *)
RECURSIVE split(_, _, _)
split(text, sep, part) ==
    IF text = <<>> THEN <<part>>
    ELSE IF Head(text) = sep THEN <<part>> \o split(Tail(text), sep, <<>>)
    ELSE split(Tail(text), sep, Append(part, Head(text)))

(* sep.join(parts) *)
RECURSIVE join(_, _)
join(parts, sep) ==
    IF parts = <<>> THEN <<>>
    ELSE IF Len(parts) = 1 THEN parts[1]
    ELSE parts[1] \o <<sep>> \o join(Tail(parts), sep)

(* f"{value}" of a value that may be None *)
format(value) == IF value = Absent THEN <<"None">> ELSE value

file_url_of(item_id, parent_path, file_name) ==
    LET file_path  == IF parent_path # <<>>
                      THEN parent_path \o <<"/">> \o file_name
                      ELSE file_name
        no_leading == IF startswith(file_path, "/") THEN Tail(file_path)
                      ELSE file_path
    IN  <<"item_id:">> \o format(item_id) \o <<"|", "path:">> \o no_leading

upload_accepted(file_url) ==
    [message |-> "File uploaded successfully", file_url |-> file_url]

upload_response(request, reply) ==
    IF ~request.decodable
    THEN [op |-> "upload", request |-> request, remote |-> NotCalled,
          status |-> 400, detail |-> "Invalid base64 file data"]
    ELSE IF reply.status \notin {200, 201}
    THEN [op |-> "upload", request |-> request,
          remote |-> [called |-> TRUE, reply |-> reply],
          status |-> reply.status, detail |-> "response.text"]
    ELSE LET item_id     == reply.id
             parent_path == replace_with_empty(get_text(reply.path, <<>>),
                                               "/drive/root:")
             file_name   == get_text(reply.name, request.file_name)
         IN  [op |-> "upload", request |-> request,
              remote |-> [called |-> TRUE, reply |-> reply],
              status |-> 200,
              body |-> upload_accepted(file_url_of(item_id, parent_path, file_name))]

(* requests of /upload_file: file name, and whether file_data decodes *)
UploadRequests ==
    [file_name : { <<"f.pdf">>, <<"r.docx">> }, server_id : { <<"p1">> }, decodable : BOOLEAN]

(* replies of the remote store to the PUT: status, and the id,             *)
(* parentReference.path and name of the body                               *)
UploadReplies ==
    [status : {200, 201, 400, 404, 507},
     id     : { Absent, <<"7">>, <<"8">> },
     path   : { Absent, <<"/drive/root:">>, <<"/drive/root:", "/", "F">> },
     name   : { Absent, <<"g.pdf">> }]

upload_file ==
    /\ response = NoResponse
    /\ \E request \in UploadRequests, reply \in UploadReplies :
          response' = upload_response(request, reply)
    /\ UNCHANGED <<all_items, earlier>>

(* urllib.parse.unquote on the token level *)
unquote_token(token) ==
    IF token = "Shared%20Documents" THEN "Shared Documents" ELSE token

unquote(text) == [k \in 1..Len(text) |-> unquote_token(text[k])]

(* urlparse(url).path: what follows scheme and host *)
url_path(url) ==
    IF startswith(url, "https://host") THEN Tail(url) ELSE url

RECURSIVE docs_index_from(_, _)
docs_index_from(path_parts, i) ==
    IF i > Len(path_parts) THEN -1
    ELSE IF path_parts[i] \in { <<"Documents">>, <<"Shared%20Documents">>,
                                <<"Shared Documents">> }
         THEN i
         ELSE docs_index_from(path_parts, i + 1)

(* the request sent to the remote store, or the HTTPException raised before *)
delete_target(file_url) ==
    IF startswith(file_url, "item_id:")
    THEN LET parts   == split(file_url, "|", <<>>)
             item_id == replace_with_empty(parts[1], "item_id:")
         IN  [by |-> "item", url |-> <<"items/">> \o item_id]
    ELSE LET path_parts == split(unquote(url_path(file_url)), "/", <<>>)
             docs_index == docs_index_from(path_parts, 1)
             relative_path ==
                 join(SubSeq(path_parts, docs_index + 1, Len(path_parts)), "/")
         IN  IF docs_index = -1
             THEN [by |-> "none", status |-> 400,
                   detail |-> "Invalid file URL format - could not find Documents folder"]
             ELSE IF relative_path = <<>>
             THEN [by |-> "none", status |-> 400,
                   detail |-> "Invalid file URL - no file path found"]
             ELSE [by |-> "path", url |-> <<"root:/">> \o relative_path]

(* httpx raise_for_status: a reply that is not a success raises *)
raises_for_status(status) == ~(200 <= status /\ status <= 299)

delete_response(request, reply_status) ==
    LET target == delete_target(request.file_url)
        remote == [called |-> TRUE, url |-> target.url, status |-> reply_status]
    IN  IF target.by = "none"
        THEN [op |-> "delete", request |-> request, remote |-> NotCalled,
              status |-> target.status, detail |-> target.detail]
        ELSE IF reply_status = 204
        THEN [op |-> "delete", request |-> request, remote |-> remote,
              status |-> 200,
              body |-> [message |-> "File deleted successfully",
                        file_url |-> request.file_url]]
        ELSE IF reply_status = 404
        THEN [op |-> "delete", request |-> request, remote |-> remote,
              status |-> 404, detail |-> "File not found"]
        ELSE IF raises_for_status(reply_status)
        THEN [op |-> "delete", request |-> request, remote |-> remote,
              status |-> 500, detail |-> "Error deleting file"]
        ELSE \* the handler runs off its end and returns None
             [op |-> "delete", request |-> request, remote |-> remote,
              status |-> 200, body |-> JsonNull]

(* file_url of /delete_file: urls as upload_file returns them, legacy web  *)
(* urls with and without a Documents segment, and one with nothing behind  *)
(* the segment                                                             *)
DeleteUrls ==
    { file_url_of(id, path, <<"f.pdf">>) :
        id \in { Absent, <<"7">> }, path \in { <<>>, <<"/", "F">> } }
    \cup { <<"https://host", "/", "sites", "/", "Shared%20Documents", "/", "f.pdf">>,
           <<"https://host", "/", "Documents", "/", "F", "/", "f.pdf">>,
           <<"https://host", "/", "sites", "/", "f.pdf">>,
           <<"https://host", "/", "Shared Documents">>,
           <<"f.pdf">> }

DeleteRequests == [file_url : DeleteUrls]

(* status of the remote store's reply to the DELETE *)
DeleteReplies == {200, 202, 204, 403, 404, 500}

delete_file ==
    /\ response = NoResponse
    /\ \E request \in DeleteRequests, reply_status \in DeleteReplies :
          response' = delete_response(request, reply_status)
    /\ UNCHANGED <<all_items, earlier>>

NextFiles == upload_file \/ delete_file \/ Deliver

SpecFiles == Init /\ [][NextFiles]_vars

IsUpload == response.op = "upload"

IsDelete == response.op = "delete"

RemoteReplied(statuses) ==
    response.remote.called /\
    (IF IsUpload THEN response.remote.reply.status ELSE response.remote.status)
        \in statuses

(* C12: whenever the remote store accepts the upload (replies 200 or 201), *)
(* upload_file answers successfully with the message "File uploaded        *)
(* successfully", a file_url and a delete_url.                             *)
C12_UploadAnswer ==
    (IsUpload /\ RemoteReplied({200, 201})) =>
        /\ response.status = 200
        /\ response.body.message = "File uploaded successfully"
        /\ {"file_url", "delete_url"} \subseteq DOMAIN response.body

IsDeleteSuccess ==
    /\ response.status = 200
    /\ response.body = [message |-> "File deleted successfully",
                        file_url |-> response.request.file_url]

(* C13: delete_file answers with the message "File deleted successfully"   *)
(* and the given file_url exactly when the remote delete replies 204; a    *)
(* remote 404 gives 404 "File not found"; every other remote reply gives   *)
(* an error outcome, never a normal response.                              *)
C13_DeleteOutcomes ==
    IsDelete =>
        /\ IsDeleteSuccess <=> RemoteReplied({204})
        /\ RemoteReplied({404}) =>
              response.status = 404 /\ response.detail = "File not found"
        /\ RemoteReplied(DeleteReplies \ {204, 404}) => response.status >= 400

----------------------------------------------------------------------------
(* copy_template_folder                                                    *)
(*                                                                         *)
(* The answer of the handler carries the requests it sent to the remote    *)
(* store, in the order sent, each with its argument and the reply it got.  *)

MaxCopyItems == 2

(* folders "a" and "b" of the list, with fields.id absent, "" or "7" *)
CopyItems ==
    [etag : { <<34, 97, 44, 49, 34>>, <<98>> }, parent : { None, <<97>> },
     name : { <<66>> }, kind : {"Folder"}, id : { None, <<>>, <<55>> }]

(* destination_server_id of the request body *)
CopyTargets == { <<97>>, <<98>>, <<122>> }

(* replies to GET .../items/{id}/driveItem: status, and the id of the body *)
DriveItemReplies == [status : {200, 404}, id : { None, <<>>, <<68>> }]

(* replies to POST .../copy *)
CopyReplies ==
    [status : {200, 201, 202, 404, 500}, body : { [id |-> <<67>>] }]

Call(name, arg, reply) == [name |-> name, arg |-> arg, reply |-> reply]

ListItemsCall == Call("list_items", None, [status |-> 200])

missing_Never(value) == FALSE

(* `if not value` *)
missing(value) == ~Truthy(value)

copy_response(items, req, drive_item_reply, copy_reply) ==
    LET hierarchy == build_folder_hierarchy(items)
        matching_node ==
            find_folder_by_id_in_hierarchy(hierarchy, req.destination_server_id)
        answer(calls, status, fields) ==
            [op |-> "copy", request |-> req, calls |-> calls,
             status |-> status] @@ fields
    IN  IF matching_node = NoneNode
        THEN answer(<<ListItemsCall>>, 404,
                    [detail |-> "Destination folder not found."])
        ELSE
        LET numeric_item_id == matching_node.rawItem.id
            drive_item_call ==
                Call("drive_item", numeric_item_id, drive_item_reply)
        IN  IF missing(numeric_item_id)
            THEN answer(<<ListItemsCall>>, 400,
                    [detail |-> "Could not find the numeric list item ID from fields['ID']."])
            ELSE IF raises_for_status(drive_item_reply.status)
            THEN answer(<<ListItemsCall, drive_item_call>>, 500,
                    [detail |-> "Internal Server Error"])
            ELSE
            LET parent_drive_item_id == drive_item_reply.id
                copy_call == Call("copy", parent_drive_item_id, copy_reply)
                calls == <<ListItemsCall, drive_item_call, copy_call>>
            IN  IF missing(parent_drive_item_id)
                THEN answer(<<ListItemsCall, drive_item_call>>, 400,
                    [detail |-> "Could not retrieve a valid driveItem.id for the destination folder."])
                ELSE IF copy_reply.status = 202
                THEN answer(calls, 200,
                    [body |-> [status  |-> "Copy in progress",
                               message |-> "The template folder is being copied."]])
                ELSE IF raises_for_status(copy_reply.status)
                THEN answer(calls, 500, [detail |-> "Internal Server Error"])
                ELSE answer(calls, 200, [body |-> copy_reply.body])

copy_template_folder ==
    /\ response = NoResponse
    /\ \E destination_server_id \in CopyTargets,
          drive_item_reply \in DriveItemReplies, copy_reply \in CopyReplies :
          response' = copy_response(all_items,
                          [destination_server_id |-> destination_server_id],
                          drive_item_reply, copy_reply)
    /\ UNCHANGED <<all_items, earlier>>

RemoteAddCopy == RemoteAdd(CopyItems, MaxCopyItems)

NextCopy == RemoteAddCopy \/ copy_template_folder \/ Deliver

SpecCopy == Init /\ [][NextCopy]_vars

IsCopy == response.op = "copy"

CallNames(calls) == [k \in 1..Len(calls) |-> calls[k].name]

Issued(name) == \E k \in 1..Len(response.calls) : response.calls[k].name = name

InProgress ==
    [status |-> "Copy in progress",
     message |-> "The template folder is being copied."]

(* the item that the lookup of the destination comes to: the last item of  *)
(* the batch with that id, when its node is reachable from roots           *)
DestinationNode ==
    find_folder_by_id_in_hierarchy(build_folder_hierarchy(all_items),
                                   response.request.destination_server_id)

(* C15: copy_template_folder sends the copy only after, in this order, the *)
(* destination was found in the freshly fetched batch, its numeric         *)
(* list-item id was read from the raw item and its drive-item id was       *)
(* resolved; destination absent: 404, no drive-item lookup and no copy;    *)
(* either id missing: 400 and no copy; a remote 202 is answered "Copy in   *)
(* progress", a synchronous completion with the remote body.               *)
C15_CopyOnlyAfterLookups ==
    IsCopy =>
        LET calls == response.calls
            node  == DestinationNode
        IN  /\ CallNames(calls) \in { <<"list_items">>,
                                      <<"list_items", "drive_item">>,
                                      <<"list_items", "drive_item", "copy">> }
            /\ Issued("drive_item") =>
                  /\ node # NoneNode
                  /\ node.rawItem.id \notin { None, <<>> }
                  /\ calls[2].arg = node.rawItem.id
            /\ Issued("copy") =>
                  /\ calls[2].reply.status = 200
                  /\ calls[2].reply.id \notin { None, <<>> }
                  /\ calls[3].arg = calls[2].reply.id
            /\ node = NoneNode =>
                  response.status = 404 /\ calls = <<ListItemsCall>>
            /\ (node # NoneNode /\ node.rawItem.id \in { None, <<>> }) =>
                  response.status = 400 /\ calls = <<ListItemsCall>>
            /\ (Issued("drive_item") /\ calls[2].reply.status = 200
                  /\ calls[2].reply.id \in { None, <<>> }) =>
                  response.status = 400 /\ ~Issued("copy")
            /\ (Issued("copy") /\ calls[3].reply.status = 202) =>
                  response.status = 200 /\ response.body = InProgress
            /\ (Issued("copy") /\ calls[3].reply.status \in {200, 201}) =>
                  /\ response.status = 200
                  /\ response.body = calls[3].reply.body
                  /\ response.body # InProgress

C15_Witness ==
    /\ IsCopy
    /\ Len(all_items) = 2
    /\ response.request.destination_server_id = <<98>>
    /\ DestinationNode # NoneNode
    /\ DestinationNode.parentID = <<97>>
    /\ CallNames(response.calls) = <<"list_items", "drive_item", "copy">>
    /\ response.calls[3].reply.status = 202
    /\ response.body = InProgress

----------------------------------------------------------------------------
(* convert_doc_to_pdf *)

MaxConvertItems == 2

(* documents and folders "a" and "b" with fields.id absent or "7", and the *)
(* document "b" inside "a"                                                 *)
ConvertItems ==
    [etag : { <<34, 97, 44, 49, 34>>, <<98>> }, parent : { None },
     name : { <<66>> }, kind : {"Document", "Folder"}, id : { None, <<55>> }]
    \cup [etag : { <<98>> }, parent : { <<97>> }, name : { <<66>> },
          kind : {"Document"}, id : { <<55>> }]

(* server_id of the path *)
ConvertTargets == { <<97>>, <<98>>, <<122>> }

(* requests: whether pdf_to_append_b64 decodes *)
ConvertRequests == [decodable : BOOLEAN]

(* replies to the drive-item lookup: status, id and parentReference.id *)
ConvertDriveItemReplies ==
    [status : {200, 404}, id : { None, <<68>> }, parent_id : { None, <<80>> }]

(* status of the reply to GET .../content?format=pdf *)
RenderReplies == {200, 202, 404}

(* replies of the remote store to the PUT of the merged PDF *)
ConvertUploadReplies ==
    [status : {201, 507}, id : { <<"7">> }, path : { <<"/drive/root:">> },
     name : { Absent }]

(* the one-character text of a character code *)
chr(c) ==
    CASE c = 97 -> "a" [] c = 98 -> "b" [] c = 122 -> "z" [] OTHER -> "?"

text_of(codes) == [k \in 1..Len(codes) |-> chr(codes[k])]

render_failed_ErrorsOnly(status) == status >= 400

render_failed(status) == status # 200

convert_response(items, server_id, req, drive_item_reply, render_status, merged, upload_reply) ==
    LET matching_node ==
            find_folder_by_id_in_hierarchy(build_folder_hierarchy(items),
                                           server_id)
        env == [drive_item |-> drive_item_reply, render |-> render_status,
                merged |-> merged, upload |-> upload_reply]
        raise(calls, status, detail) ==
            [op |-> "convert", target |-> server_id, request |-> req,
             env |-> env, calls |-> calls, raised |-> TRUE,
             status |-> status, detail |-> detail]
    IN  IF matching_node = NoneNode
        THEN raise(<<ListItemsCall>>, 404,
                   "Could not find an item with this server_id.")
        ELSE
        LET fields == matching_node.rawItem
            numeric_item_id == fields.id
            drive_item_id == drive_item_reply.id
            parent_drive_item_id == drive_item_reply.parent_id
            drive_item_call ==
                Call("drive_item", numeric_item_id, drive_item_reply)
            render_call ==
                Call("render", drive_item_id, [status |-> render_status])
            upload_request ==
                [file_name |-> text_of(server_id) \o <<"_combined.pdf">>,
                 server_id |-> parent_drive_item_id, decodable |-> TRUE]
            upload_answer == upload_response(upload_request, upload_reply)
            upload_call ==
                Call("upload", parent_drive_item_id, [status |-> upload_reply.status])
            to_drive  == <<ListItemsCall, drive_item_call>>
            to_render == <<ListItemsCall, drive_item_call, render_call>>
            to_upload == <<ListItemsCall, drive_item_call, render_call, upload_call>>
        IN  IF fields.kind # "Document"
            THEN raise(<<ListItemsCall>>, 400,
                       "The specified item is not a document.")
            ELSE IF missing(numeric_item_id)
            THEN raise(<<ListItemsCall>>, 400,
                       "Could not find numeric list item ID.")
            ELSE IF raises_for_status(drive_item_reply.status)
            THEN raise(to_drive, 500, "Internal Server Error")
            ELSE IF missing(drive_item_id)
            THEN raise(to_drive, 400,
                       "Could not retrieve driveItem.id for the file.")
            ELSE IF render_failed(render_status)
            THEN raise(to_render, render_status, "Conversion failed.")
            ELSE IF ~req.decodable
            THEN raise(to_render, 400, "Invalid base64 PDF to append.")
            ELSE IF ~merged
            THEN raise(to_render, 500, "Error combining PDFs")
            ELSE IF missing(parent_drive_item_id)
            THEN raise(to_render, 400,
                       "Could not find the parent folder's driveItem ID.")
            ELSE IF upload_answer.status # 200
            THEN raise(to_upload, upload_answer.status, upload_answer.detail)
            ELSE [op |-> "convert", target |-> server_id, request |-> req,
                  env |-> env, calls |-> to_upload, raised |-> FALSE,
                  status |-> 200,
                  body |-> [combined_pdf_base64 |-> "final_pdf_base64",
                            sharepoint_file_url |-> upload_answer.body.file_url]]

convert_doc_to_pdf ==
    /\ response = NoResponse
    /\ \E server_id \in ConvertTargets, req \in ConvertRequests,
          drive_item_reply \in ConvertDriveItemReplies,
          render_status \in RenderReplies, merged \in BOOLEAN,
          upload_reply \in ConvertUploadReplies :
          response' = convert_response(all_items, server_id, req,
                          drive_item_reply, render_status, merged, upload_reply)
    /\ UNCHANGED <<all_items, earlier>>

RemoteAddConvert == RemoteAdd(ConvertItems, MaxConvertItems)

NextConvert == RemoteAddConvert \/ convert_doc_to_pdf \/ Deliver

SpecConvert == Init /\ [][NextConvert]_vars

IsConvert == response.op = "convert"

ConvertNode ==
    find_folder_by_id_in_hierarchy(build_folder_hierarchy(all_items),
                                   response.target)

(* C16: convert_doc_to_pdf uploads the merged PDF only after every earlier *)
(* step succeeded: target absent gives 404; a found item whose kind is not *)
(* "Document" gives 400 before any drive-item lookup or render request,    *)
(* the kind being checked before the numeric id; a render reply other than *)
(* 200, an undecodable PDF to append, a failed merge and a missing parent  *)
(* drive-item id each give an error; in none of these has an upload been   *)
(* sent.                                                                   *)
C16_UploadOnlyAfterAllSteps ==
    IsConvert =>
        LET calls == response.calls
            node  == ConvertNode
            env   == response.env
        IN  /\ CallNames(calls) \in
                  { <<"list_items">>, <<"list_items", "drive_item">>,
                    <<"list_items", "drive_item", "render">>,
                    <<"list_items", "drive_item", "render", "upload">> }
            /\ node = NoneNode =>
                  response.raised /\ response.status = 404
                  /\ calls = <<ListItemsCall>>
            /\ (node # NoneNode /\ node.rawItem.kind # "Document") =>
                  /\ response.raised /\ response.status = 400
                  /\ response.detail = "The specified item is not a document."
                  /\ calls = <<ListItemsCall>>
            /\ (Issued("render") /\ calls[3].reply.status # 200) =>
                  response.raised /\ ~Issued("upload")
            /\ (Issued("render") /\ ~response.request.decodable) =>
                  response.raised /\ ~Issued("upload")
            /\ (Issued("render") /\ ~env.merged) =>
                  response.raised /\ ~Issued("upload")
            /\ (Issued("render") /\ env.drive_item.parent_id \in { None, <<>> }) =>
                  response.raised /\ ~Issued("upload")
            /\ Issued("upload") =>
                  /\ node # NoneNode
                  /\ node.rawItem.kind = "Document"
                  /\ node.rawItem.id \notin { None, <<>> }
                  /\ calls[2].arg = node.rawItem.id
                  /\ calls[2].reply.status = 200
                  /\ calls[2].reply.id \notin { None, <<>> }
                  /\ calls[3].arg = calls[2].reply.id
                  /\ calls[3].reply.status = 200
                  /\ response.request.decodable
                  /\ env.merged
                  /\ calls[4].arg = calls[2].reply.parent_id
                  /\ calls[4].arg \notin { None, <<>> }
            /\ ~response.raised => Issued("upload")

C16_Witness ==
    /\ IsConvert
    /\ response.target = <<98>>
    /\ ConvertNode # NoneNode
    /\ ConvertNode.parentID = <<97>>
    /\ ~response.raised
    /\ CallNames(response.calls) = <<"list_items", "drive_item", "render", "upload">>
    /\ response.body.sharepoint_file_url =
          <<"item_id:", "7", "|", "path:", "b", "_combined.pdf">>

----------------------------------------------------------------------------
(* process_timesheets                                                      *)
(*                                                                         *)
(* A date text is its day, counted in days from some day 0, and whether    *)
(* the day is written zero-padded as strftime("%d-%b-%Y") writes it;       *)
(* strptime accepts both writings.  total_time is a binary floating-point  *)
(* number: addition rounds to nearest, ties to even, as IEEE 754 does,     *)
(* with a significand of MantissaBits bits in place of 53.                 *)

MaxTimesheets == 3

MantissaBits == 2

RECURSIVE pow2(_)
pow2(n) == IF n = 0 THEN 1 ELSE 2 * pow2(n - 1)

(* the spacing of the floating-point numbers around the magnitude a *)
RECURSIVE ulp(_, _)
ulp(a, u) == IF a < pow2(MantissaBits) * u THEN u ELSE ulp(a, 2 * u)

round_to_float(x) ==
    LET a == IF x < 0 THEN -x ELSE x
        u == ulp(a, 1)
        q == a \div u
        r == a % u
        m == IF 2 * r > u \/ (2 * r = u /\ q % 2 = 1) THEN q + 1 ELSE q
    IN  IF x < 0 THEN -(m * u) ELSE m * u

(* float + float *)
float_add(x, y) == round_to_float(x + y)

ValueError == -1

BadDate == [day |-> -1, padded |-> FALSE]

(* datetime.strptime(text, "%d-%b-%Y") *)
strptime(text) == IF text = BadDate THEN ValueError ELSE text.day

(* date.strftime("%d-%b-%Y") *)
strftime(day) == [day |-> day, padded |-> TRUE]

normalize_AsGiven(text) == text

(* strptime(...).strftime(...) of a parseable date text *)
normalize(text) == strftime(strptime(text))

(* the while loop from start_date to end_date *)
RECURSIVE date_range_from(_, _)
date_range_from(current_date, end_date) ==
    IF current_date <= end_date
    THEN <<strftime(current_date)>> \o date_range_from(current_date + 1, end_date)
    ELSE <<>>

(* sum(entry.total_time for entry in time_entries if entry.type == ...) *)
RECURSIVE sum_ega(_, _)
sum_ega(time_entries, acc) ==
    IF time_entries = <<>> THEN acc
    ELSE sum_ega(Tail(time_entries),
                 IF Head(time_entries).type = "EGA Consultant"
                 THEN float_add(acc, Head(time_entries).total_time)
                 ELSE acc)

key_of(timesheet) ==
    [employee_first_name |-> timesheet.employee_first_name,
     employee_last_name  |-> timesheet.employee_last_name,
     employee_email      |-> timesheet.employee_email,
     client              |-> timesheet.client,
     project_number      |-> timesheet.project_number]

RowIndex(employee_data, key) ==
    CHOOSE i \in 1..Len(employee_data) : employee_data[i].key = key

new_row(key, date_range) ==
    [key |-> key,
     daily_hours |-> [date \in {date_range[i] : i \in 1..Len(date_range)} |-> 0],
     total_hours |-> 0]

has_hours_Nonzero(daily_total) == daily_total # 0

(* `if daily_total > 0` *)
has_hours(daily_total) == daily_total > 0

(* one turn of the loop over the timesheets; employee_data is the dict in  *)
(* insertion order; error tells that strptime raised ValueError            *)
add_timesheet(employee_data, timesheet, date_range) ==
    LET key == key_of(timesheet)
        known == \E i \in 1..Len(employee_data) : employee_data[i].key = key
        with_key == IF known THEN employee_data
                    ELSE Append(employee_data, new_row(key, date_range))
        i == RowIndex(with_key, key)
        daily_total == sum_ega(timesheet.time_entries, 0)
    IN  IF ~has_hours(daily_total) THEN [error |-> FALSE, data |-> with_key]
        ELSE IF strptime(timesheet.date) = ValueError
        THEN [error |-> TRUE, data |-> with_key]
        ELSE LET timesheet_date == normalize(timesheet.date)
             IN  IF timesheet_date \in DOMAIN with_key[i].daily_hours
                 THEN [error |-> FALSE,
                       data |-> [with_key EXCEPT
                         ![i].daily_hours[timesheet_date] = float_add(@, daily_total),
                         ![i].total_hours = float_add(@, daily_total)]]
                 ELSE [error |-> FALSE, data |-> with_key]

RECURSIVE add_timesheets(_, _, _)
add_timesheets(employee_data, timesheets, date_range) ==
    IF timesheets = <<>> THEN [error |-> FALSE, data |-> employee_data]
    ELSE LET turn == add_timesheet(employee_data, Head(timesheets), date_range)
         IN  IF turn.error THEN turn
             ELSE add_timesheets(turn.data, Tail(timesheets), date_range)

csv_row(employee, date_range) ==
    [key |-> employee.key,
     hours |-> [j \in 1..Len(date_range) |-> employee.daily_hours[date_range[j]]],
     total_hours |-> employee.total_hours]

timesheets_response(request) ==
    LET date_error ==
            [op |-> "timesheets", request |-> request, status |-> 400,
             detail |-> "Date parsing error"]
    IN  IF strptime(request.start_date) = ValueError
           \/ strptime(request.end_date) = ValueError
        THEN date_error
        ELSE
        LET date_range == date_range_from(strptime(request.start_date),
                                          strptime(request.end_date))
            processed == add_timesheets(<<>>, request.timesheets, date_range)
            employee_data == processed.data
        IN  IF processed.error THEN date_error
            ELSE [op |-> "timesheets", request |-> request, status |-> 200,
                  csv |-> [dates |-> date_range,
                           rows |-> [i \in 1..Len(employee_data) |->
                                       csv_row(employee_data[i], date_range)]]]

Employee(project_number) ==
    [employee_first_name |-> "Ann", employee_last_name |-> "Lee",
     employee_email |-> "ann@ega", client |-> "C", project_number |-> project_number]

Entry(total_time, type) == [total_time |-> total_time, type |-> type]

Timesheet(project_number, date, time_entries) ==
    Employee(project_number) @@ [date |-> date, time_entries |-> time_entries]

Padded(day) == [day |-> day, padded |-> TRUE]

Unpadded(day) == [day |-> day, padded |-> FALSE]

(* timesheets of one employee on projects P1 and P2: hours 1, 4 and -1 on  *)
(* days 2 and 3; a day written unpadded with an entry of another type; a   *)
(* day behind the range; an unparseable date with and without hours; two   *)
(* entries on one sheet; a sheet without entries                           *)
TimesheetEntries ==
    { Timesheet("P1", Padded(d), <<Entry(h, "EGA Consultant")>>) :
        d \in {2, 3}, h \in {1, 4, -1} }
    \cup { Timesheet("P1", Unpadded(2),
                     <<Entry(1, "EGA Consultant"), Entry(4, "Travel")>>),
           Timesheet("P1", Padded(4), <<Entry(1, "EGA Consultant")>>),
           Timesheet("P1", BadDate, <<Entry(1, "EGA Consultant")>>),
           Timesheet("P1", BadDate, <<Entry(-1, "EGA Consultant")>>),
           Timesheet("P2", Padded(2),
                     <<Entry(1, "EGA Consultant"), Entry(1, "EGA Consultant")>>),
           Timesheet("P2", Padded(3), <<>>) }

TimesheetRequests ==
    UNION { [start_date : { Padded(2), Unpadded(2), BadDate },
             end_date   : { Padded(3), Padded(1) },
             timesheets : [1..n -> TimesheetEntries]] : n \in 0..MaxTimesheets }

process_timesheets ==
    /\ response = NoResponse
    /\ \E request \in TimesheetRequests :
          response' = timesheets_response(request)
    /\ UNCHANGED <<all_items, earlier>>

NextTimesheets == process_timesheets \/ Deliver

SpecTimesheets == Init /\ [][NextTimesheets]_vars

IsCsv == response.op = "timesheets" /\ response.status = 200

RequestKeys ==
    { key_of(response.request.timesheets[i]) :
        i \in 1..Len(response.request.timesheets) }

(* the days from start_date to end_date inclusive *)
RequestDays == response.request.start_date.day .. response.request.end_date.day

EgaTimes(timesheet) ==
    LET ega == SelectSeq(timesheet.time_entries,
                         LAMBDA entry : entry.type = "EGA Consultant")
    IN  [k \in 1..Len(ega) |-> ega[k].total_time]

RECURSIVE ExactSum(_)
ExactSum(numbers) ==
    IF numbers = <<>> THEN 0 ELSE Head(numbers) + ExactSum(Tail(numbers))

RECURSIVE FloatSum(_)
FloatSum(numbers) ==
    IF numbers = <<>> THEN 0
    ELSE float_add(FloatSum(SubSeq(numbers, 1, Len(numbers) - 1)),
                   numbers[Len(numbers)])

(* the timesheets of a key dated on one of the days, in request order *)
SheetsOf(key, days) ==
    SelectSeq(response.request.timesheets,
              LAMBDA t : key_of(t) = key /\ t.date # BadDate /\ t.date.day \in days)

RECURSIVE Flatten(_)
Flatten(seqs) == IF seqs = <<>> THEN <<>> ELSE Head(seqs) \o Flatten(Tail(seqs))

AllEgaTimes(sheets) == Flatten([k \in 1..Len(sheets) |-> EgaTimes(sheets[k])])

PositiveTotals(sheets) ==
    LET totals == [k \in 1..Len(sheets) |-> FloatSum(EgaTimes(sheets[k]))]
    IN  SelectSeq(totals, LAMBDA total : total > 0)

RowsAndColumns ==
    LET csv == response.csv
    IN  /\ Len(csv.dates) = Cardinality(RequestDays)
        /\ \A j \in 1..Len(csv.dates) :
              csv.dates[j] = Padded(response.request.start_date.day + j - 1)
        /\ { csv.rows[i].key : i \in 1..Len(csv.rows) } = RequestKeys
        /\ \A i, k \in 1..Len(csv.rows) :
              csv.rows[i].key = csv.rows[k].key => i = k
        /\ \A i \in 1..Len(csv.rows) : Len(csv.rows[i].hours) = Len(csv.dates)

(* C17, as claimed: one row per distinct key and one column per date of    *)
(* the range; the column of date d is the sum of total_time over the       *)
(* "EGA Consultant" entries of the key's timesheets dated d; total_hours   *)
(* is the sum of the row's columns.                                        *)
C17_AsClaimed ==
    IsCsv =>
        /\ RowsAndColumns
        /\ \A i \in 1..Len(response.csv.rows) :
              LET row == response.csv.rows[i]
              IN  /\ \A j \in 1..Len(row.hours) :
                        row.hours[j] =
                            ExactSum(AllEgaTimes(
                                SheetsOf(row.key, {response.csv.dates[j].day})))
                  /\ row.total_hours = ExactSum(row.hours)

(* C17, amended: the column of date d is the floating-point sum, in        *)
(* request order, of the "EGA Consultant" totals of the key's timesheets   *)
(* dated d whose total is greater than zero, and total_hours is the        *)
(* floating-point sum, in request order, of those totals over all dates of *)
(* the range.                                                              *)
C17_PositiveTotalsSummed ==
    IsCsv =>
        /\ RowsAndColumns
        /\ \A i \in 1..Len(response.csv.rows) :
              LET row == response.csv.rows[i]
              IN  /\ \A j \in 1..Len(row.hours) :
                        row.hours[j] =
                            FloatSum(PositiveTotals(
                                SheetsOf(row.key, {response.csv.dates[j].day})))
                  /\ row.total_hours =
                        FloatSum(PositiveTotals(SheetsOf(row.key, RequestDays)))

C17_Witness ==
    /\ IsCsv
    /\ response.request.timesheets =
          << Timesheet("P1", Padded(2), <<Entry(-1, "EGA Consultant")>>),
             Timesheet("P1", Unpadded(2),
                       <<Entry(1, "EGA Consultant"), Entry(4, "Travel")>>),
             Timesheet("P1", Padded(4), <<Entry(1, "EGA Consultant")>>) >>
    /\ response.csv.dates = << Padded(2), Padded(3) >>
    /\ response.csv.rows =
          << [key |-> Employee("P1"), hours |-> <<1, 0>>, total_hours |-> 1] >>

(* rounding seen in a row: 1 + 4 on day 2 is rounded to 4, (1 + 1) + 4 over *)
(* the range is 6                                                          *)
C17_RoundedRow ==
    /\ IsCsv
    /\ Len(response.csv.rows) = 1
    /\ response.csv.rows[1].hours = <<4, 1>>
    /\ response.csv.rows[1].total_hours = 6

====
